---- MODULE Spec2Model ----
(***************************************************************************)
(* Model of the YSO library, src/ysocxx/ysocxx.hpp: the YSOSection and     *)
(* YumStudioObject containers, the serializer (pack, to_string, save) and  *)
(* the line-oriented parser (parse, parse_section).                        *)
(*                                                                         *)
(* A std::string is a sequence of one-character strings.  Positions are    *)
(* 0-based as in C++.  A std::unordered_map is a function whose domain is  *)
(* the set of its keys.                                                    *)
(***************************************************************************)
EXTENDS Integers, Sequences, FiniteSets, TLC

VARIABLES
  obj,          \* the YumStudioObject the calling program holds (its `sections`)
  call,         \* the last container call of the program and its outcome
  saved,        \* copy of obj taken when save() was called
  saveOutcome,  \* what YSOSection::to_string did during save()
  file,         \* contents of the file written by save()
  text,         \* contents of the std::istream given to parse()
  pos,          \* number of characters of text already extracted
  eofbit,       \* std::ios_base::eofbit of the stream
  failbit,      \* std::ios_base::failbit of the stream
  pc,           \* where the program is: idle, a parser loop, or an end state
  line,         \* `line` of the loop that ran last
  object,       \* `object` of parse()
  sectionname,  \* `sectionname` of parse()
  section,      \* `section` of parse_section()
  name,         \* `name` of parse_section()
  value,        \* `value` of parse_section()
  found,        \* `found` of parse_section()
  error,        \* the exception in flight, "none" when there is none
  result        \* the YumStudioObject parse() returned (meaningful when pc = "returned")

vars == <<obj, call, saved, saveOutcome, file, text, pos, eofbit, failbit, pc,
          line, object, sectionname, section, name, value, found, error, result>>

progVars == <<obj, call, saved, saveOutcome, file>>
streamVars == <<text, pos, eofbit, failbit>>

----------------------------------------------------------------------------
(* Bounds of the model *)

\* Longest generated input document, in lines.
MaxLines == 3

\* Most key/value entries the program puts in the object it builds.
MaxEntries == 2

\* Width of size_t in the model.  Only the wrap npos + 1 = 0 depends on it;
\* every string of the model is far shorter than 2^SizeBits.
SizeBits == 16

----------------------------------------------------------------------------
(* std::string *)

\* #define YSO_MULLN_STR "\"\"\""
YSO_MULLN_STR == <<"\"", "\"", "\"">>

\* std::string::npos, the largest size_t
npos == 2^SizeBits - 1

\* size_t addition and subtraction
SizeAdd(a, b) == (a + b) % (2^SizeBits)
SizeSub(a, b) == (a - b + 2^SizeBits) % (2^SizeBits)

Min(a, b) == IF a <= b THEN a ELSE b

\* s[0]: the terminating '\0' when s is empty
NUL == "NUL"
At0(s) == IF Len(s) = 0 THEN NUL ELSE s[1]

\* std::isspace in the "C" locale
isspace(c) == c \in {" ", "\t", "\n", "\r", "\f"}

\* s.find(c, from) for a character c
find(s, c, from) ==
  LET hits == {i \in from..(Len(s) - 1) : s[i + 1] = c}
  IN  IF hits = {} THEN npos ELSE CHOOSE i \in hits : \A j \in hits : i <= j

\* s.find(m) for a string m
find_str(s, m) ==
  LET hits == {i \in 0..(Len(s) - Len(m)) : SubSeq(s, i + 1, i + Len(m)) = m}
  IN  IF hits = {} THEN npos ELSE CHOOSE i \in hits : \A j \in hits : i <= j

\* s.substr(p, n); every call of the library has p <= s.size()
substr(s, p, n) == SubSeq(s, p + 1, p + Min(n, Len(s) - p))

\* YumStudioObject::trim
trim(s) ==
  LET nonws   == {i \in 0..(Len(s) - 1) : ~isspace(s[i + 1])}
      wsfront == IF nonws = {} THEN Len(s)
                 ELSE CHOOSE i \in nonws : \A j \in nonws : i <= j
      wsback  == IF nonws = {} THEN 0
                 ELSE (CHOOSE i \in nonws : \A j \in nonws : j <= i) + 1
  IN  IF wsback <= wsfront THEN <<>> ELSE SubSeq(s, wsfront + 1, wsback)

----------------------------------------------------------------------------
(* std::unordered_map *)

EmptyMap == <<>>

\* m[k] = v
Put(m, k, v) == [x \in (DOMAIN m) \cup {k} |-> IF x = k THEN v ELSE m[x]]

----------------------------------------------------------------------------
(* std::istream *)

\* A getline that hands out the line at the position without extracting it
getline_peek(t, p, eof, fail, old) ==
  LET nl == find(t, "\n", p)
  IN  [ok |-> ~(eof \/ fail),
       line |-> IF eof \/ fail THEN old
                ELSE SubSeq(t, p + 1, IF nl # npos THEN nl ELSE Len(t)),
       pos |-> p, eofbit |-> eof, failbit |-> eof \/ fail]

\* std::getline(src, line): the stream after the call, the line extracted and
\* whether the stream converts to true.  A stream that is not good() fails at
\* once.  Otherwise characters are extracted up to and including the next
\* '\n'; reaching the end of the text sets eofbit, and failbit too when
\* nothing was extracted.  `old` is the string passed in, left as it is when
\* the stream was not good().
getline(t, p, eof, fail, old) ==
  IF eof \/ fail
    THEN [ok |-> FALSE, line |-> old, pos |-> p, eofbit |-> eof, failbit |-> TRUE]
    ELSE LET nl == find(t, "\n", p)
         IN  IF nl # npos
               THEN [ok |-> TRUE, line |-> SubSeq(t, p + 1, nl), pos |-> nl + 1,
                     eofbit |-> FALSE, failbit |-> FALSE]
               ELSE [ok |-> p < Len(t),
                     line |-> SubSeq(t, p + 1, Len(t)), pos |-> Len(t),
                     eofbit |-> TRUE, failbit |-> ~(p < Len(t))]

----------------------------------------------------------------------------
(* YSOSection *)

\* YSOSection::pack
pack(str) ==
  IF find(str, "\n", 0) # npos THEN YSO_MULLN_STR \o str \o YSO_MULLN_STR ELSE str

\* YSOSection::contains
YSOSection_contains(map, key) == key \in DOMAIN map

\* YSOSection::operator[] (mutable): the map after the call; the reference
\* returned is to map[key]
YSOSection_index(map, key) ==
  IF key \in DOMAIN map THEN map ELSE Put(map, key, <<>>)

\* A const lookup written with the inserting std::unordered_map::operator[]
YSOSection_at_inserting(map, key) ==
  [thrown |-> "none",
   ret |-> IF key \in DOMAIN map THEN map[key] ELSE <<>>,
   map |-> IF key \in DOMAIN map THEN map ELSE Put(map, key, <<>>)]

\* YSOSection::operator[] const: the value returned or the exception thrown,
\* and the map after the call
YSOSection_at(map, key) ==
  IF YSOSection_contains(map, key)
    THEN [thrown |-> "none", ret |-> map[key], map |-> map]
    ELSE [thrown |-> "out_of_range", ret |-> <<>>, map |-> map]

\* All orders in which a range-for may visit the keys of an unordered_map
RECURSIVE Orders(_)
Orders(S) ==
  IF S = {} THEN {<<>>}
  ELSE UNION {{<<x>> \o o : o \in Orders(S \ {x})} : x \in S}

\* The string `s` that the loop of YSOSection::to_string builds when it
\* visits the keys in the given order
RECURSIVE to_string_s(_, _)
to_string_s(map, order) ==
  IF order = <<>> THEN <<>>
  ELSE order[1] \o <<":">> \o map[order[1]] \o <<"\n">> \o to_string_s(map, Tail(order))

\* A string standing for an indeterminate std::string
Garbage == {<<"?">>}

\* YSOSection::to_string.  The function ends without a return statement, which
\* is undefined behaviour: the caller may receive the string that was built,
\* some other string, or the program may crash.
to_string(map) ==
  {[kind |-> "built", str |-> to_string_s(map, o)] : o \in Orders(DOMAIN map)}
    \cup {[kind |-> "garbage", str |-> g] : g \in Garbage}
    \cup {[kind |-> "crash", str |-> <<>>]}

----------------------------------------------------------------------------
(* YumStudioObject *)

\* YumStudioObject::contains
YumStudioObject_contains(sections, sec) == sec \in DOMAIN sections

\* An operator[] that assigns a fresh section whether or not one is there
YumStudioObject_index_resetting(sections, sec) ==
  [x \in (DOMAIN sections) \cup {sec} |-> IF x = sec THEN EmptyMap ELSE sections[x]]

\* YumStudioObject::operator[] (mutable): `sections` after the call
YumStudioObject_index(sections, sec) ==
  IF sec \in DOMAIN sections THEN sections ELSE Put(sections, sec, EmptyMap)

\* YumStudioObject::operator[] const
YumStudioObject_at(sections, sec) ==
  IF YumStudioObject_contains(sections, sec)
    THEN [thrown |-> "none", ret |-> sections[sec], map |-> sections]
    ELSE [thrown |-> "out_of_range", ret |-> EmptyMap, map |-> sections]

\* What the loop of YumStudioObject::save writes when it visits the sections
\* in the given order and to_string returns ts[n] for section n
RECURSIVE save_sections(_, _)
save_sections(order, ts) ==
  IF order = <<>> THEN <<>>
  ELSE <<"[">> \o order[1] \o <<"]", "\n">> \o ts[order[1]].str \o <<"\n">>
         \o save_sections(Tail(order), ts)

\* The choices of one to_string result per section
ToStringChoices(sections) ==
  {ts \in [DOMAIN sections -> UNION {to_string(sections[n]) : n \in DOMAIN sections}] :
     \A n \in DOMAIN sections : ts[n] \in to_string(sections[n])}

\* How the to_string calls of one save went
Outcome(ts) ==
  IF \E n \in DOMAIN ts : ts[n].kind = "crash" THEN "crash"
  ELSE IF \E n \in DOMAIN ts : ts[n].kind = "garbage" THEN "garbage"
  ELSE "built"

----------------------------------------------------------------------------
(* Input documents *)

\* a section header
L_S == <<"[", "S", "]">>
\* another section header
L_T == <<"[", "T", "]">>
\* a header without its closing bracket
L_unclosed == <<"[", "u", "n", "c", "l", "o", "s", "e", "d">>
\* a header with an empty name
L_empty_header == <<"[", "]">>
\* a key/value line
L_kv == <<"k", ":", "v">>
\* the same key with another value
L_kw == <<"k", ":", "w">>
\* whitespace around key and value, a second colon
L_key_ab == <<"k", "e", "y", " ", ":", " ", "a", ":", "b", " ">>
\* a key/value line with an empty key
L_empty_key == <<":", "v">>
\* a key line that opens a multi-line value
L_open == <<"d", ":", "\"", "\"", "\"">>
\* a terminator line
L_close == <<"\"", "\"", "\"">>
\* a terminator line with text before the marker
L_b_close == <<"b", "\"", "\"", "\"">>
\* a line without a colon
L_a == <<"a">>
\* an empty line
L_empty == <<>>
\* a comment line with a colon
L_hash_colon == <<"#", "c", ":", "d">>
\* a comment line without a colon
L_hash == <<"#", " ", "c">>
\* a comment line starting with a semicolon
L_semi == <<";", "c">>

LineSet ==
  {L_S, L_T, L_unclosed, L_empty_header, L_kv, L_kw,
   L_key_ab, L_empty_key, L_open, L_close, L_b_close, L_a,
   L_empty, L_hash_colon, L_hash, L_semi}

\* The lines joined with '\n'; a final '\n' when trailing
RECURSIVE JoinLines(_, _)
JoinLines(ls, trailing) ==
  IF ls = <<>> THEN <<>>
  ELSE IF Len(ls) = 1 THEN ls[1] \o (IF trailing THEN <<"\n">> ELSE <<>>)
  ELSE ls[1] \o <<"\n">> \o JoinLines(Tail(ls), trailing)

\* Sequences of at most n elements of S
SeqsUpTo(S, n) == UNION {[1..k -> S] : k \in 0..n}

\* The concrete scenario: a section with a single-line and a multi-line value
Doc_general_lines ==
  <<<<"[", "g", "e", "n", "e", "r", "a", "l", "]">>,
    <<"n", "a", "m", "e", ":", "d", "e", "m", "o">>,
    <<"d", "e", "s", "c", ":", "\"", "\"", "\"">>,
    <<"h", "e", "l", "l", "o">>,
    <<"w", "o", "r", "l", "d">>,
    <<"\"", "\"", "\"">>>>
\* A multi-line value that is never terminated
Doc_unterminated_lines ==
  <<<<"[", "S", "]">>,
    <<"k", ":", "\"", "\"", "\"">>,
    <<"a", "b", "c">>>>
\* Key/value lines after a terminated multi-line value
Doc_resume_lines ==
  <<<<"[", "S", "]">>,
    <<"d", ":", "\"", "\"", "\"">>,
    <<"a">>,
    <<"\"", "\"", "\"">>,
    <<"k", ":", "v">>,
    <<"k", ":", "w">>>>
\* Two sections with one key each
Doc_two_sections_lines ==
  <<<<"[", "S", "]">>,
    <<"k", ":", "v">>,
    <<"[", "T", "]">>,
    <<"k", ":", "w">>>>
\* The same section name in two headers
Doc_same_section_lines ==
  <<<<"[", "S", "]">>,
    <<"k", ":", "v">>,
    <<"[", "S", "]">>,
    <<"k", "e", "y", " ", ":", " ", "a", ":", "b", " ">>>>
\* A key is parsed, then a multi-line value is opened and never terminated
Doc_fail_late_lines ==
  <<<<"[", "S", "]">>,
    <<"k", ":", "v">>,
    <<"d", ":", "\"", "\"", "\"">>,
    <<"a">>>>

ScenarioLines ==
  {Doc_general_lines,
   Doc_unterminated_lines,
   Doc_resume_lines,
   Doc_two_sections_lines,
   Doc_same_section_lines,
   Doc_fail_late_lines}

\* The stream contents parse() is given: every document of at most MaxLines
\* lines of LineSet and the scenarios, each with and without a final newline
Documents ==
  {JoinLines(ls, nl) : ls \in SeqsUpTo(LineSet, MaxLines) \cup ScenarioLines,
                       nl \in BOOLEAN}

----------------------------------------------------------------------------
(* YumStudioObject::parse and YumStudioObject::parse_section *)

NoCall == [op |-> "none", sec |-> <<>>, key |-> <<>>, thrown |-> "none",
           ret |-> <<>>, before |-> EmptyMap]

\* The condition of parse() under which a trimmed line is a section header
is_header(l) ==
  Len(l) > 0 /\ At0(l) # "#" /\ At0(l) # ";" /\ find(l, "[", 0) # npos

\* The condition of parse_section() under which a trimmed line is handled as
\* a key/value line, with the grouping C++ gives && and ||
is_keyvalue(l) ==
  (Len(l) >= 0 /\ At0(l) # "#") \/ (At0(l) # ";" /\ find(l, ":", 0) # npos)

\* `name` and `value` that parse_section() cuts out of a trimmed line
name_of(l) == substr(l, 0, find(l, ":", 0))
value_of(l) == substr(l, SizeAdd(find(l, ":", 0), 1), npos)

\* An exception caught inside parse(), which then returns what it has parsed
throw_swallowed ==
  /\ pc' = "returned"
  /\ error' = error
  /\ result' = object

\* `throw std::runtime_error(...)` in parse() or parse_section(): neither
\* function has a handler, so the exception leaves parse() and nothing is
\* returned
throw_runtime_error ==
  /\ pc' = "thrown"
  /\ error' = "runtime_error"
  /\ result' = result

\* The program calls parse() on the stream it was given: `object = {}`
parse_enter ==
  /\ pc = "idle"
  /\ pc' = "parse"
  /\ object' = EmptyMap
  /\ UNCHANGED <<progVars, streamVars, line, sectionname, section, name, value,
                 found, error, result>>

\* One pass of the while loop of parse(), or its exit and `return object`
parse_loop ==
  /\ pc = "parse"
  /\ \E g \in {getline(text, pos, eofbit, failbit, line)} :
     \E l \in {trim(g.line)} :
     \E beg \in {find(l, "[", 0)} :
     \E end \in {find(l, "]", beg)} :
         /\ pos' = g.pos /\ eofbit' = g.eofbit /\ failbit' = g.failbit
         /\ IF ~g.ok
              THEN /\ pc' = "returned"
                   /\ result' = object
                   /\ UNCHANGED <<line, sectionname, section, error>>
              ELSE /\ line' = l
                   /\ IF is_header(l)
                        THEN IF end = npos
                               THEN /\ throw_runtime_error
                                    /\ UNCHANGED <<sectionname, section>>
                               ELSE /\ sectionname' =
                                         trim(substr(l, beg + 1, SizeSub(end, beg + 1)))
                                    /\ section' = EmptyMap
                                    /\ pc' = "parse_section"
                                    /\ UNCHANGED <<error, result>>
                        ELSE /\ pc' = pc
                             /\ UNCHANGED <<sectionname, section, error, result>>
  /\ UNCHANGED <<progVars, text, object, name, value, found>>

\* One pass of the outer while loop of parse_section(), or its exit,
\* `return section` and the assignment `object[sectionname] = ` in parse()
parse_section_loop ==
  /\ pc = "parse_section"
  /\ \E g \in {getline(text, pos, eofbit, failbit, line)} :
     \E l \in {trim(g.line)} :
         /\ pos' = g.pos /\ eofbit' = g.eofbit /\ failbit' = g.failbit
         /\ IF ~g.ok
              THEN /\ pc' = "parse"
                   /\ object' = Put(object, sectionname, section)
                   /\ UNCHANGED <<line, section, name, value, found>>
              ELSE /\ line' = l
                   /\ object' = object
                   /\ IF is_keyvalue(l)
                        THEN IF find_str(value_of(l), YSO_MULLN_STR) # npos
                               THEN /\ name' = name_of(l)
                                    /\ value' = value_of(l)
                                    /\ found' = FALSE
                                    /\ pc' = "multiline"
                                    /\ section' = section
                               ELSE /\ section' = Put(section, name_of(l), trim(value_of(l)))
                                    /\ pc' = pc
                                    /\ UNCHANGED <<name, value, found>>
                        ELSE /\ pc' = pc
                             /\ UNCHANGED <<section, name, value, found>>
  /\ UNCHANGED <<progVars, text, sectionname, error, result>>

\* One evaluation of the condition of the inner while loop of parse_section()
\* and, when it holds, one pass of its body.  getline is called before
\* `found` is looked at.  When the loop ends, `name`, `value` and `found` go
\* out of scope; nothing is stored in `section`.
multiline_loop ==
  /\ pc = "multiline"
  /\ \E g \in {getline(text, pos, eofbit, failbit, line)} :
     \E end \in {find_str(g.line, YSO_MULLN_STR)} :
         /\ pos' = g.pos /\ eofbit' = g.eofbit /\ failbit' = g.failbit
         /\ line' = g.line
         /\ IF ~g.ok \/ found
              THEN /\ pc' = "parse_section"
                   /\ name' = <<>> /\ value' = <<>> /\ found' = FALSE
                   /\ UNCHANGED <<error, result>>
              ELSE IF g.eofbit
                THEN /\ throw_runtime_error
                     /\ UNCHANGED <<name, value, found>>
                ELSE /\ pc' = pc
                     /\ UNCHANGED <<error, result>>
                     /\ name' = name
                     /\ IF end # npos
                          THEN /\ value' = value \o substr(g.line, 0, end)
                               /\ found' = TRUE
                          ELSE /\ value' = value \o g.line
                               /\ found' = found
  /\ UNCHANGED <<progVars, text, object, sectionname, section>>

----------------------------------------------------------------------------
(* The parser run on the input documents *)

Init ==
  /\ text \in Documents
  /\ pos = 0 /\ eofbit = FALSE /\ failbit = FALSE
  /\ pc = "idle"
  /\ obj = EmptyMap /\ call = NoCall /\ saved = EmptyMap
  /\ saveOutcome = "none" /\ file = <<>>
  /\ line = <<>> /\ object = EmptyMap /\ sectionname = <<>>
  /\ section = EmptyMap /\ name = <<>> /\ value = <<>> /\ found = FALSE
  /\ error = "none" /\ result = EmptyMap

Next ==
  \/ parse_enter
  \/ parse_loop
  \/ parse_section_loop
  \/ multiline_loop

Spec == Init /\ [][Next]_vars

\* parse() is one sequential call: once entered, the thread runs every step
\* of it until it returns or throws
SpecFair == Spec /\ WF_vars(Next)

----------------------------------------------------------------------------
(* A program that builds an object, saves it and parses the file again *)

\* Section names, keys, values and headers the program uses
SectionNames == {<<"S">>, <<"T">>}
KeyNames == {<<"k">>, <<"j">>}
Values == {<<"v">>, <<"a", "\n", "b", "\n", "c">>, <<"\"", "\"", "\"", "x">>}
Headers == {<<>>, <<"h">>}

\* Number of key/value entries of an object
RECURSIVE EntriesIn(_, _)
EntriesIn(o, secs) ==
  IF secs = {} THEN 0
  ELSE LET n == CHOOSE n \in secs : TRUE
       IN  Cardinality(DOMAIN o[n]) + EntriesIn(o, secs \ {n})

Entries(o) == EntriesIn(o, DOMAIN o)

\* The program stops adding entries at MaxEntries
MayAdd(sec, key) ==
  \/ sec \in DOMAIN obj /\ key \in DOMAIN obj[sec]
  \/ Entries(obj) < MaxEntries

Called(op, sec, key, thrown, ret) ==
  [op |-> op, sec |-> sec, key |-> key, thrown |-> thrown, ret |-> ret, before |-> obj]

parserVars == <<text, pos, eofbit, failbit, pc, line, object, sectionname,
                section, name, value, found, error, result>>

\* obj.contains(sec)
Contains(sec) ==
  /\ pc = "idle"
  /\ call' = Called("contains", sec, <<>>, "none", YumStudioObject_contains(obj, sec))
  /\ UNCHANGED <<obj, saved, saveOutcome, file, parserVars>>

\* obj[sec] on a const object
At(sec) ==
  /\ pc = "idle"
  /\ LET r == YumStudioObject_at(obj, sec)
     IN  /\ call' = Called("at", sec, <<>>, r.thrown, r.ret)
         /\ obj' = r.map
  /\ UNCHANGED <<saved, saveOutcome, file, parserVars>>

\* obj[sec] on a mutable object
Index(sec) ==
  /\ pc = "idle"
  /\ obj' = YumStudioObject_index(obj, sec)
  /\ call' = Called("index", sec, <<>>, "none", obj'[sec])
  /\ UNCHANGED <<saved, saveOutcome, file, parserVars>>

\* obj[sec].contains(key), for a section the object has
KeyContains(sec, key) ==
  /\ pc = "idle"
  /\ sec \in DOMAIN obj
  /\ call' = Called("key_contains", sec, key, "none", YSOSection_contains(obj[sec], key))
  /\ UNCHANGED <<obj, saved, saveOutcome, file, parserVars>>

\* section[key] on a const section of the object
KeyAt(sec, key) ==
  /\ pc = "idle"
  /\ sec \in DOMAIN obj
  /\ LET r == YSOSection_at(obj[sec], key)
     IN  /\ call' = Called("key_at", sec, key, r.thrown, r.ret)
         /\ obj' = Put(obj, sec, r.map)
  /\ UNCHANGED <<saved, saveOutcome, file, parserVars>>

\* section[key] on a mutable section of the object
KeyIndex(sec, key) ==
  /\ pc = "idle"
  /\ sec \in DOMAIN obj
  /\ MayAdd(sec, key)
  /\ obj' = Put(obj, sec, YSOSection_index(obj[sec], key))
  /\ call' = Called("key_index", sec, key, "none", obj'[sec][key])
  /\ UNCHANGED <<saved, saveOutcome, file, parserVars>>

\* obj[sec][key] = v
Assign(sec, key, v) ==
  /\ pc = "idle"
  /\ MayAdd(sec, key)
  /\ LET o == YumStudioObject_index(obj, sec)
         m == YSOSection_index(o[sec], key)
     IN  obj' = Put(o, sec, Put(m, key, v))
  /\ call' = Called("assign", sec, key, "none", v)
  /\ UNCHANGED <<saved, saveOutcome, file, parserVars>>

\* YumStudioObject::save when the file cannot be opened
save_fails ==
  /\ pc = "idle"
  /\ saved' = obj
  /\ call' = Called("save", <<>>, <<>>, "runtime_error", <<>>)
  /\ pc' = "thrown"
  /\ error' = "runtime_error"
  /\ UNCHANGED <<obj, saveOutcome, file, text, pos, eofbit, failbit, line, object,
                 sectionname, section, name, value, found, result>>

\* YumStudioObject::save when the file is opened: the sections are written
\* in some order with whatever to_string gives for each.  A crash leaves the
\* file empty: nothing was flushed.
save(header, order, ts) ==
  /\ pc = "idle"
  /\ saved' = obj
  /\ call' = Called("save", <<>>, <<>>, "none", <<>>)
  /\ saveOutcome' = Outcome(ts)
  /\ IF Outcome(ts) = "crash"
       THEN /\ pc' = "crashed"
            /\ file' = <<>>
       ELSE /\ pc' = "saved"
            /\ file' = header \o <<"\n">> \o save_sections(order, ts)
  /\ UNCHANGED <<obj, text, pos, eofbit, failbit, line, object, sectionname,
                 section, name, value, found, error, result>>

\* The program opens the file it saved and calls parse() on it
parse_saved ==
  /\ pc = "saved"
  /\ text' = file
  /\ pos' = 0 /\ eofbit' = FALSE /\ failbit' = FALSE
  /\ pc' = "parse"
  /\ object' = EmptyMap
  /\ UNCHANGED <<progVars, line, sectionname, section, name, value, found,
                 error, result>>

InitObj ==
  /\ text = <<>>
  /\ pos = 0 /\ eofbit = FALSE /\ failbit = FALSE
  /\ pc = "idle"
  /\ obj = EmptyMap /\ call = NoCall /\ saved = EmptyMap
  /\ saveOutcome = "none" /\ file = <<>>
  /\ line = <<>> /\ object = EmptyMap /\ sectionname = <<>>
  /\ section = EmptyMap /\ name = <<>> /\ value = <<>> /\ found = FALSE
  /\ error = "none" /\ result = EmptyMap

NextObj ==
  \/ \E sec \in SectionNames : Contains(sec)
  \/ \E sec \in SectionNames : At(sec)
  \/ \E sec \in SectionNames : Index(sec)
  \/ \E sec \in SectionNames, key \in KeyNames : KeyContains(sec, key)
  \/ \E sec \in SectionNames, key \in KeyNames : KeyAt(sec, key)
  \/ \E sec \in SectionNames, key \in KeyNames : KeyIndex(sec, key)
  \/ \E sec \in SectionNames, key \in KeyNames, v \in Values : Assign(sec, key, v)
  \/ save_fails
  \/ \E header \in Headers, order \in Orders(DOMAIN obj),
        ts \in ToStringChoices(obj) : save(header, order, ts)
  \/ parse_saved
  \/ parse_loop
  \/ parse_section_loop
  \/ multiline_loop

SpecObj == InitObj /\ [][NextObj]_vars

----------------------------------------------------------------------------
(* The text format as the specification describes it, for stating claims *)

\* The lines of a text: the pieces between '\n' characters, without a final
\* empty piece
RECURSIVE SplitLines(_)
SplitLines(t) ==
  IF t = <<>> THEN <<>>
  ELSE LET nl == find(t, "\n", 0)
       IN  IF nl = npos THEN <<t>>
           ELSE <<SubSeq(t, 1, nl)>> \o SplitLines(SubSeq(t, nl + 2, Len(t)))

HasMarker(s) == find_str(s, YSO_MULLN_STR) # npos

\* A line whose first non-whitespace character is '#' or ';'
IsComment(l) == At0(trim(l)) \in {"#", ";"}

\* A section header line, and one with no ']' after its first '['
IsHeaderLine(l) ==
  Len(trim(l)) > 0 /\ ~IsComment(l) /\ find(trim(l), "[", 0) # npos

IsUnclosedHeader(l) ==
  IsHeaderLine(l) /\ find(trim(l), "]", find(trim(l), "[", 0)) = npos

HeaderName(l) ==
  LET x == trim(l)
      beg == find(x, "[", 0)
  IN  trim(SubSeq(x, beg + 2, find(x, "]", beg)))

\* A key/value line; its key and its raw value
IsKeyValueLine(l) ==
  ~IsComment(l) /\ ~IsHeaderLine(l) /\ find(trim(l), ":", 0) # npos

KeyOf(l) == trim(SubSeq(trim(l), 1, find(trim(l), ":", 0)))
RawValueOf(l) == SubSeq(trim(l), find(trim(l), ":", 0) + 2, Len(trim(l)))

\* A key/value line whose raw value contains the marker
OpensMultiline(l) == IsKeyValueLine(l) /\ HasMarker(RawValueOf(l))

\* The lines of a text that contain the marker
MarkerLines(ls) == {i \in 1..Len(ls) : HasMarker(ls[i])}

\* A section header line with its closing bracket and a name
IsNamedHeader(l) ==
  IsHeaderLine(l) /\ ~IsUnclosedHeader(l) /\ HeaderName(l) # <<>>

\* Line j follows a section header and no marker line precedes it
InSectionBody(ls, j) ==
  /\ \E i \in 1..(j - 1) : IsNamedHeader(ls[i])
  /\ \A i \in 1..(j - 1) : ~HasMarker(ls[i])

\* A multi-line value is opened in a section body and no later line has the marker
Unterminated(t) ==
  LET ls == SplitLines(t)
  IN  \E j \in 1..Len(ls) :
        /\ OpensMultiline(ls[j])
        /\ InSectionBody(ls, j)
        /\ MarkerLines(ls) = {j}

\* The marker is on no line, or on exactly two: a key line in a section body
\* that opens a multi-line value, and a later line that terminates it
MarkersPaired(t) ==
  LET ls == SplitLines(t)
  IN  \/ MarkerLines(ls) = {}
      \/ \E j, e \in 1..Len(ls) :
           /\ j < e
           /\ MarkerLines(ls) = {j, e}
           /\ OpensMultiline(ls[j])
           /\ InSectionBody(ls, j)

HasUnclosedHeader(t) ==
  \E i \in 1..Len(SplitLines(t)) : IsUnclosedHeader(SplitLines(t)[i])

\* Every header line has its closing bracket and a name
HeadersNamed(t) ==
  \A i \in 1..Len(SplitLines(t)) :
    IsHeaderLine(SplitLines(t)[i]) => IsNamedHeader(SplitLines(t)[i])

\* No value of the object contains the marker
MarkerFree(o) == \A n \in DOMAIN o : \A k \in DOMAIN o[n] : ~HasMarker(o[n][k])

Ended == pc \in {"returned", "thrown"}

----------------------------------------------------------------------------
(* Claims *)

\* C1: round trip.  When an object with no marker in its values has been
\* saved (every to_string call having returned the string it built) and the
\* file has been parsed, parse returned an object equal to the one saved.
C1_RoundTrip ==
  (Ended /\ saveOutcome = "built" /\ MarkerFree(saved))
    => (pc = "returned" /\ result = saved)

\* C2: multi-line value parsing.  The input lines [general], name:demo,
\* desc:""", hello, world, """ parse to one section `general` with
\* name -> "demo" and desc -> "hello\nworld".
Expected_general ==
  Put(EmptyMap, <<"g", "e", "n", "e", "r", "a", "l">>,
      Put(Put(EmptyMap, <<"n", "a", "m", "e">>, <<"d", "e", "m", "o">>),
          <<"d", "e", "s", "c">>,
          <<"h", "e", "l", "l", "o", "\n", "w", "o", "r", "l", "d">>))

C2_MultilineValueStored ==
  (Ended /\ SplitLines(text) = Doc_general_lines)
    => (pc = "returned" /\ result = Expected_general)

\* C3: section scoping.  For an input without marker whose header lines are
\* closed and named, the parsed object has exactly the sections named by the header
\* lines, and every key/value line is stored in the section named by the
\* nearest header line before it.
C3_SectionScoping ==
  (pc = "returned" /\ ~HasMarker(text) /\ HeadersNamed(text))
    => LET ls == SplitLines(text)
           hs == {i \in 1..Len(ls) : IsHeaderLine(ls[i])}
       IN  /\ DOMAIN result = {HeaderName(ls[i]) : i \in hs}
           /\ \A j \in 1..Len(ls) :
                (IsKeyValueLine(ls[j]) /\ \E i \in hs : i < j)
                  => LET h == CHOOSE i \in hs : i < j /\ \A i2 \in hs : i2 < j => i2 <= i
                     IN  /\ HeaderName(ls[h]) \in DOMAIN result
                         /\ \E k \in DOMAIN result[HeaderName(ls[h])] : trim(k) = KeyOf(ls[j])

\* C4: unterminated multi-line value.  When a key line opens a multi-line
\* value and no later line contains the marker, parse does not return an
\* object, with or without a final newline.
C4_UnterminatedFails ==
  Unterminated(text) => pc # "returned"

\* C5: malformed header.  When a section header line of a marker-free input
\* has no ']' after its first '[' (the other header lines being closed and
\* named), parse does not return an object, wherever the line stands.
C5_UnclosedHeaderFails ==
  LET ls == SplitLines(text)
  IN  (/\ HasUnclosedHeader(text)
       /\ ~HasMarker(text)
       /\ \A i \in 1..Len(ls) :
            IsHeaderLine(ls[i]) => (IsUnclosedHeader(ls[i]) \/ IsNamedHeader(ls[i])))
        => pc # "returned"

\* C6: parse fails only on structural errors.  When no header line lacks its
\* closing bracket and every multi-line value that is opened is terminated,
\* parse does not fail, with or without a final newline.
C6_FailsOnlyOnStructuralErrors ==
  (~HasUnclosedHeader(text) /\ MarkersPaired(text)) => pc # "thrown"

\* C7: missing-key contract.  The const lookup of an absent section or key
\* throws std::out_of_range, contains() returns false for it without
\* throwing, and neither call adds the name or changes the container.
C7_MissingKeyContract ==
  /\ (call.op = "at" /\ call.sec \notin DOMAIN call.before)
       => call.thrown = "out_of_range"
  /\ (call.op = "key_at" /\ call.key \notin DOMAIN call.before[call.sec])
       => call.thrown = "out_of_range"
  /\ (call.op = "contains" /\ call.sec \notin DOMAIN call.before)
       => (call.thrown = "none" /\ call.ret = FALSE)
  /\ (call.op = "key_contains" /\ call.key \notin DOMAIN call.before[call.sec])
       => (call.thrown = "none" /\ call.ret = FALSE)
  /\ call.op \in {"at", "key_at", "contains", "key_contains"}
       => obj = call.before

\* A const lookup of an absent key in a section that has another key threw
C7_Witness ==
  /\ call.op = "key_at"
  /\ call.key \notin DOMAIN obj[call.sec]
  /\ obj[call.sec] # EmptyMap
  /\ call.thrown = "out_of_range"

\* C8: comment lines are ignored.  Reading a line whose first non-whitespace
\* character is '#' or ';' leaves the object and the section being parsed as
\* they are, at top level and inside a section body.
C8_CommentsIgnored ==
  [][(pc \in {"parse", "parse_section"} /\ pos' # pos /\ IsComment(line'))
       => (object' = object /\ section' = section /\ pc' = pc)]_vars

\* C9: serializer quoting.  After a save in which every to_string call
\* returned the string it built, the file has for every entry of every
\* section the text key ":" pack(value) "\n": the value between two markers
\* when it contains a newline, the value unchanged when it does not.
C9_SerializerQuoting ==
  (pc = "saved" /\ saveOutcome = "built")
    => \A n \in DOMAIN saved : \A k \in DOMAIN saved[n] :
         find_str(file, k \o <<":">> \o pack(saved[n][k]) \o <<"\n">>) # npos

\* C10: single-line key/value lines.  Reading in a section body a key/value
\* line whose raw value has no marker stores, under the trimmed text before
\* the first ':', the trimmed text after the first ':'.
C10_SingleLineKeyValue ==
  [][(pc = "parse_section" /\ pos' # pos /\ IsKeyValueLine(line')
        /\ ~HasMarker(RawValueOf(line')))
       => (/\ KeyOf(line') \in DOMAIN section'
           /\ section'[KeyOf(line')] = trim(RawValueOf(line')))]_vars

\* C11: resumption after a multi-line value.  The line read right after the
\* terminator line of a multi-line value is handled as a section-body line:
\* when it is a single-line key/value line, its key is in the section.
C11_ResumesAfterTerminator ==
  [][(pc = "multiline" /\ found /\ pos' # pos /\ IsKeyValueLine(line')
        /\ ~HasMarker(RawValueOf(line')))
       => (/\ pc' = "parse_section"
           /\ \E k \in DOMAIN section' : trim(k) = KeyOf(line'))]_vars

\* C12: unknown lines are ignored.  Reading in a section body a line that is
\* empty after trimming, or that has no ':' (and is neither a comment nor a
\* header), leaves the key set of the section as it is.
C12_UnknownLinesIgnored ==
  [][(pc = "parse_section" /\ pos' # pos /\ sectionname # <<>>
        /\ ~IsComment(line') /\ ~IsHeaderLine(line')
        /\ (line' = <<>> \/ find(line', ":", 0) = npos))
       => DOMAIN section' = DOMAIN section]_vars

\* C13: a header line is never examined by the section-body loop.  In the
\* object parsed from a marker-free input with named headers, no key and no value of any
\* section is the text of a header line of the input.
C13_HeaderNotInSection ==
  (pc = "returned" /\ ~HasMarker(text) /\ HeadersNamed(text))
    => LET ls == SplitLines(text)
           hs == {trim(ls[i]) : i \in {j \in 1..Len(ls) : IsHeaderLine(ls[j])}}
       IN  \A n \in DOMAIN result : \A k \in DOMAIN result[n] :
             k \notin hs /\ result[n][k] \notin hs

\* The lines of a text are header lines and single-line key/value lines only
OnlyHeadersAndKeyValues(t) ==
  \A i \in 1..Len(SplitLines(t)) :
    IsNamedHeader(SplitLines(t)[i]) \/ IsKeyValueLine(SplitLines(t)[i])

\* C14: duplicate section names.  When an input of header and key/value
\* lines has exactly two header lines and they carry the same name, the
\* parsed object has that one section, and its keys are those of the
\* key/value lines after the second header.
C14_LaterSectionReplaces ==
  LET ls == SplitLines(text)
      hs == {i \in 1..Len(ls) : IsHeaderLine(ls[i])}
  IN  (/\ pc = "returned" /\ ~HasMarker(text) /\ OnlyHeadersAndKeyValues(text)
       /\ Cardinality(hs) = 2
       /\ \A i, j \in hs : HeaderName(ls[i]) = HeaderName(ls[j]))
        => LET later == CHOOSE i \in hs : \A j \in hs : j <= i
               nm == HeaderName(ls[later])
           IN  /\ DOMAIN result = {nm}
               /\ {trim(k) : k \in DOMAIN result[nm]}
                    = {KeyOf(ls[j]) : j \in (later + 1)..Len(ls)}

\* C18: non-empty names.  In the object parse returned, no section name and
\* no key of any section is the empty string.
C18_NamesNotEmpty ==
  pc = "returned"
    => (/\ <<>> \notin DOMAIN result
        /\ \A n \in DOMAIN result : <<>> \notin DOMAIN result[n])

\* C15: a failed parse yields no document.  Whenever parse() or
\* parse_section() reaches a throw statement (a header line without ']' read
\* by the top-level loop; a line read at end-of-stream by the multi-line loop
\* before the terminator was found), the exception reaches the caller and no
\* object is returned, also when entries had been parsed before.
C15_FailedParseNoObject ==
  /\ [][(\/ /\ pc = "parse" /\ pos' # pos /\ IsUnclosedHeader(line')
         \/ /\ pc = "multiline" /\ ~found /\ pos' # pos /\ eofbit')
          => (pc' = "thrown" /\ error' = "runtime_error" /\ result' = EmptyMap)]_vars
  /\ [](pc = "thrown" => (result = EmptyMap /\ error = "runtime_error"))

\* parse failed after an entry of the section had been stored
C15_Witness ==
  pc = "thrown" /\ section # EmptyMap /\ result = EmptyMap

\* C16: auto-vivification and frame.  The mutable operator[] of an object
\* called with an absent name adds one empty section under that name and the
\* name is then contained; called with a present name it adds nothing; every
\* other section stays as it was.  The same for the mutable operator[] of a
\* section, which creates an absent key with the empty string.
C16_AutoVivification ==
  /\ call.op = "index"
       => (/\ YumStudioObject_contains(obj, call.sec)
           /\ DOMAIN obj = (DOMAIN call.before) \cup {call.sec}
           /\ call.sec \notin DOMAIN call.before => obj[call.sec] = EmptyMap
           /\ \A n \in DOMAIN call.before : obj[n] = call.before[n])
  /\ call.op = "key_index"
       => (/\ DOMAIN obj = DOMAIN call.before
           /\ YSOSection_contains(obj[call.sec], call.key)
           /\ DOMAIN obj[call.sec] = (DOMAIN call.before[call.sec]) \cup {call.key}
           /\ call.key \notin DOMAIN call.before[call.sec] => obj[call.sec][call.key] = <<>>
           /\ \A k \in DOMAIN call.before[call.sec] :
                obj[call.sec][k] = call.before[call.sec][k]
           /\ \A n \in (DOMAIN obj) \ {call.sec} : obj[n] = call.before[n])

\* operator[] created a section in an object that holds an entry elsewhere
C16_Witness ==
  /\ call.op = "index"
  /\ call.sec \notin DOMAIN call.before
  /\ \E n \in DOMAIN call.before : call.before[n] # EmptyMap
  /\ obj[call.sec] = EmptyMap

\* The lines `key:value` of one section as the format lays them out, the
\* keys taken in the given order
RECURSIVE RenderEntries(_, _)
RenderEntries(map, order) ==
  IF order = <<>> THEN <<>>
  ELSE order[1] \o <<":">> \o pack(map[order[1]]) \o <<"\n">>
         \o RenderEntries(map, Tail(order))

\* The blocks `[name]`, entries, blank line of the sections taken in the
\* given order, the entries of each section in any order
RECURSIVE RenderBlocks(_, _)
RenderBlocks(sections, order) ==
  IF order = <<>> THEN {<<>>}
  ELSE {<<"[">> \o order[1] \o <<"]", "\n">> \o RenderEntries(sections[order[1]], o)
          \o <<"\n">> \o rest :
          o \in Orders(DOMAIN sections[order[1]]),
          rest \in RenderBlocks(sections, Tail(order))}

\* The texts the format allows for an object: the header line, a blank line,
\* then the blocks of the sections in any order
Renderings(sections, header) ==
  {header \o <<"\n">> \o <<"\n">> \o b :
     b \in UNION {RenderBlocks(sections, o) : o \in Orders(DOMAIN sections)}}

\* C17: render layout.  The file that save wrote is the header line followed
\* by a blank line, then for each section one line [name], exactly one line
\* key:value per entry of that section, and a blank separator line; every
\* section and every entry of the object appears exactly once.
C17_RenderLayout ==
  (pc = "saved" /\ saved # EmptyMap)
    => \E h \in Headers : file \in Renderings(saved, h)

\* The characters text[p+1..q] are exactly one line of the stream: no
\* newline before the last character, and the line ends at q
OneLine(p, q) ==
  /\ p < q
  /\ \A i \in (p + 1)..(q - 1) : text[i] # "\n"
  /\ text[q] = "\n" \/ q = Len(text)

\* C19: termination and single pass.  On every input parse terminates,
\* returning an object or throwing; every step of the three loops either
\* reads exactly the one line that starts where the previous read stopped
\* (so no line is read twice or skipped, and the loop that reads it is the one
\* at which the program stands), or reads nothing and leaves its loop; a
\* parse that returns has read the whole stream.
C19_TerminatesSinglePass ==
  /\ <>Ended
  /\ [][(pc \in {"parse", "parse_section", "multiline"})
          => (\/ OneLine(pos, pos')
              \/ /\ pos' = pos
                 /\ <<pc, pc'>> \in {<<"parse", "returned">>,
                                     <<"parse_section", "parse">>,
                                     <<"multiline", "parse_section">>})]_vars
  /\ [](pc = "returned" => pos = Len(text))

\* A parse that went through the three loops and returned at the end of input
C19_Witness ==
  /\ text = JoinLines(Doc_resume_lines, TRUE)
  /\ pc = "returned"
  /\ pos = Len(text)

\* C20: duplicate keys, last one wins.  When a single-line key/value line is
\* read in a section body and its key was stored by an earlier line of that
\* body, the section then holds that key exactly once, with the trimmed value
\* of the line just read, and every other key keeps its value.
C20_DuplicateKeyLastWins ==
  [][(pc = "parse_section" /\ pos' # pos /\ sectionname # <<>>
        /\ IsKeyValueLine(line') /\ ~HasMarker(RawValueOf(line'))
        /\ \E k \in DOMAIN section : trim(k) = KeyOf(line'))
       => (/\ {k \in DOMAIN section' : trim(k) = KeyOf(line')} = {KeyOf(line')}
           /\ section'[KeyOf(line')] = trim(RawValueOf(line'))
           /\ \A k \in DOMAIN section :
                trim(k) # KeyOf(line')
                  => (k \in DOMAIN section' /\ section'[k] = section[k]))]_vars

====
